---- MODULE Spec2Model ----
(***************************************************************************)
(* A model of simplestore (src/index.js): a store whose data can only be   *)
(* changed through registered mutations.  The handle handed to callers is  *)
(* a frozen Proxy around the root record { data, mutations, actions }.     *)
(*                                                                         *)
(* JavaScript values are modelled as strings: the non-string values are    *)
(* written in angle brackets ("<null>"), object and function references    *)
(* start with "ref:" and "fn:", every other string is a JS string.         *)
(* A JS object is the sequence of its own enumerable properties, in        *)
(* insertion order (the order for..in and Object.keys report them in).     *)
(***************************************************************************)
EXTENDS Integers, Sequences, FiniteSets, TLC

VARIABLES target, tasks, last, seedObj, other, links, running

\* target:  the root record { data, mutations, actions } of the store
\* tasks:   the asynchronous actions suspended at their await
\* last:    the last operation made, its arguments, its outcome and its calls
\* seedObj: the seed object the caller passed to Store, as it is now
\* other:   the root record of a second store made from the same seed
\* links:   the seed groups whose object the stores use as their own mapping
\* running: the commit whose mutation is executing, write by write
vars == <<target, tasks, last, seedObj, other, links, running>>

\* what the operations on one constructed handle leave alone
env == <<seedObj, other, links, running>>

\* ------------------------------------------------------------------------
\* Bounds of the model
\* ------------------------------------------------------------------------
MaxKeys == 2    \* own keys the data mapping grows to
MaxTasks == 2   \* asynchronous actions in flight at a time

\* ------------------------------------------------------------------------
\* JavaScript values
\* ------------------------------------------------------------------------
Undefined == "<undefined>"
Null == "<null>"

Falsy == {Undefined, Null, "<0>", "<false>", ""}

Truthy(v) == v \notin Falsy

\* the three slots of the root record, as object references
DataRef == "ref:data"
MutationsRef == "ref:mutations"
ActionsRef == "ref:actions"

\* commit.bind(target) and action.bind(target)
BoundCommit == "ref:commit.bind(target)"
BoundAction == "ref:action.bind(target)"

\* the promise an async function returns
PromiseRef == "ref:promise"

\* caller-supplied mutation functions (the ones of the unit tests, and three
\* more that write a key chosen by the caller, delete one, return the state,
\* and one that writes two keys, one after the other)
MutationFns == {"fn:set_a", "fn:setX", "fn:put", "fn:del", "fn:getState", "fn:setBoth"}

\* caller-supplied action functions
ActionFns == {"fn:go", "fn:now", "fn:idle", "fn:goBoth"}

\* the functions every ordinary object inherits from Object.prototype
BuiltinFns == {"fn:Object.prototype.toString", "fn:Object"}

Functions == MutationFns \cup ActionFns \cup BuiltinFns \cup {BoundCommit, BoundAction}

TypeOf(v) ==
  IF v \in Functions THEN "function"
  ELSE IF v = Undefined THEN "undefined"
  ELSE IF v = "<0>" THEN "number"
  ELSE IF v = "<false>" THEN "boolean"
  ELSE IF v = Null \/ v \in {DataRef, MutationsRef, ActionsRef, PromiseRef} THEN "object"
  ELSE "string"

\* ------------------------------------------------------------------------
\* JavaScript objects
\* ------------------------------------------------------------------------
EmptyObject == <<>>

Prop(k, v) == [k |-> k, v |-> v]

OwnKeys(o) == {o[i].k : i \in 1..Len(o)}

HasOwn(o, k) == k \in OwnKeys(o)

IndexOf(o, k) == CHOOSE i \in 1..Len(o) : o[i].k = k

GetOwn(o, k) == o[IndexOf(o, k)].v

\* o[k] = v : an existing key keeps its place, a new key goes last
PutProp(o, k, v) ==
  IF HasOwn(o, k)
  THEN [o EXCEPT ![IndexOf(o, k)] = Prop(k, v)]
  ELSE Append(o, Prop(k, v))

\* delete o[k]
DeleteProp(o, k) ==
  IF HasOwn(o, k)
  THEN LET i == IndexOf(o, k) IN SubSeq(o, 1, i - 1) \o SubSeq(o, i + 1, Len(o))
  ELSE o

\* Object.prototype, the prototype of every object literal and of the
\* objects Object.assign({}, ...) builds
ObjectPrototype == <<Prop("constructor", "fn:Object"),
                     Prop("toString", "fn:Object.prototype.toString")>>

\* o[k] for an ordinary object: own property first, then the prototype
GetProp(o, k) ==
  IF HasOwn(o, k) THEN GetOwn(o, k)
  ELSE IF HasOwn(ObjectPrototype, k) THEN GetOwn(ObjectPrototype, k)
  ELSE Undefined

\* Object.assign({}, o): a new object with o's own enumerable properties
RECURSIVE AssignInto(_, _)
AssignInto(dst, o) ==
  IF o = <<>> THEN dst
  ELSE AssignInto(PutProp(dst, Head(o).k, Head(o).v), Tail(o))

ObjectAssign(o) == AssignInto(EmptyObject, o)

\* ------------------------------------------------------------------------
\* Results of calls
\* ------------------------------------------------------------------------
Return(v) == [kind |-> "return", out |-> v, arg |-> ""]

Throw(e, a) == [kind |-> "throw", out |-> e, arg |-> a]

Call(fn, a1, a2) == [fn |-> fn, a1 |-> a1, a2 |-> a2]

\* RESERVEDWORDS as it would be with `action` forgotten
ReservedWordsShort == <<"data", "commit">>

RESERVEDWORDS == <<"data", "action", "commit">>

Includes(seq, x) == \E i \in 1..Len(seq) : seq[i] = x

\* the first key, in for..in order, that is a reserved word ("" when none)
RECURSIVE FirstReserved(_)
FirstReserved(o) ==
  IF o = <<>> THEN ""
  ELSE IF Includes(RESERVEDWORDS, Head(o).k) THEN Head(o).k
  ELSE FirstReserved(Tail(o))

\* ------------------------------------------------------------------------
\* Construction: Store, setProp, validate (src/index.js), props (lib/utils)
\* ------------------------------------------------------------------------
\* A raw seed group is a primitive, an object, or a producer function
\* together with what it returns.
PrimitiveValue(p) == [kind |-> "value", rk |-> "", v |-> p, obj |-> <<>>]

ObjectValue(o) == [kind |-> "object", rk |-> "", v |-> "", obj |-> o]

ProducerOfValue(p) == [kind |-> "producer", rk |-> "value", v |-> p, obj |-> <<>>]

ProducerOfObject(o) == [kind |-> "producer", rk |-> "object", v |-> "", obj |-> o]

RawTruthy(r) == r.kind # "value" \/ Truthy(r.v)

RawTypeOf(r) ==
  IF r.kind = "object" THEN "object"
  ELSE IF r.kind = "producer" THEN "function"
  ELSE TypeOf(r.v)

\* value() for a producer
ProducerResult(r) == IF r.rk = "object" THEN ObjectValue(r.obj) ELSE PrimitiveValue(r.v)

\* the own enumerable properties for..in walks (none for a primitive)
RawProps(r) == IF r.kind = "object" THEN r.obj ELSE <<>>

Valid(o) == [kind |-> "return", out |-> "", arg |-> "", arg2 |-> "", obj |-> o]

Invalid(e, a, b) == [kind |-> "throw", out |-> e, arg |-> a, arg2 |-> b, obj |-> <<>>]

\* the typeof of the first value, in for..in order, whose type is not allowed
RECURSIVE FirstDisallowed(_, _)
FirstDisallowed(o, types) ==
  IF o = <<>> THEN ""
  ELSE IF ~Includes(types, TypeOf(Head(o).v)) THEN TypeOf(Head(o).v)
  ELSE FirstDisallowed(Tail(o), types)

\* validate as it would be with the type check before the reserved-word scan
validateTypesFirst(obj, types, desc) ==
  IF RawTypeOf(obj) # "object" THEN Invalid("ValidationError", desc, "")
  ELSE IF types[1] # "*" /\ FirstDisallowed(RawProps(obj), types) # ""
    THEN Invalid("DisallowedTypeError", desc, FirstDisallowed(RawProps(obj), types))
  ELSE IF FirstReserved(RawProps(obj)) # ""
    THEN Invalid("DontTouchMyReservedwords", FirstReserved(RawProps(obj)), "")
  ELSE Valid(RawProps(obj))

validate(obj, types, desc) ==
  IF RawTypeOf(obj) # "object" THEN Invalid("ValidationError", desc, "")
  ELSE IF FirstReserved(RawProps(obj)) # ""
    THEN Invalid("DontTouchMyReservedwords", FirstReserved(RawProps(obj)), "")
  ELSE IF types[1] = "*" THEN Valid(RawProps(obj))
  ELSE IF FirstDisallowed(RawProps(obj), types) # ""
    THEN Invalid("DisallowedTypeError", desc, FirstDisallowed(RawProps(obj), types))
  ELSE Valid(RawProps(obj))

\* setProp as it would be if only the mutations group had to hold functions
setPropMutationsOnly(value, desc) ==
  LET ret0 == IF ~RawTruthy(value) THEN ObjectValue(EmptyObject) ELSE PrimitiveValue(Undefined)
      ret1 == IF RawTypeOf(value) = "function" THEN ProducerResult(value) ELSE ret0
      ret2 == IF ~RawTruthy(ret1) THEN value ELSE ret1
      types == IF desc \in {"mutations"} THEN <<"function">> ELSE <<"*">>
      checked == validate(ret2, types, desc)
  IN IF checked.kind = "throw" THEN checked ELSE Valid(ObjectAssign(checked.obj))

setProp(value, desc) ==
  LET ret0 == IF ~RawTruthy(value) THEN ObjectValue(EmptyObject) ELSE PrimitiveValue(Undefined)
      ret1 == IF RawTypeOf(value) = "function" THEN ProducerResult(value) ELSE ret0
      ret2 == IF ~RawTruthy(ret1) THEN value ELSE ret1
      types == IF desc \in {"actions", "mutations"} THEN <<"function">> ELSE <<"*">>
      checked == validate(ret2, types, desc)
  IN IF checked.kind = "throw" THEN checked ELSE Valid(ObjectAssign(checked.obj))

\* props as it would be with >= 0 for >= 1
propsLoose(obj) == Len(obj) >= 0

props(obj) == Len(obj) >= 1

\* a seed: an object with the three groups, or a non-object
SeedObject(d, m, a) == [kind |-> "object", v |-> "", data |-> d, mutations |-> m, actions |-> a]

SeedValue(p) == [kind |-> "value", v |-> p, data |-> PrimitiveValue(Undefined),
                 mutations |-> PrimitiveValue(Undefined), actions |-> PrimitiveValue(Undefined)]

\* a function passed as the seed; it can carry the three groups as properties
SeedFunction(d, m, a) ==
  [kind |-> "function", v |-> "", data |-> d, mutations |-> m, actions |-> a]

NoTarget == [data |-> EmptyObject, mutations |-> EmptyObject, actions |-> EmptyObject]

Constructed(t) == [kind |-> "return", out |-> "", arg |-> "", arg2 |-> "", target |-> t]

NotConstructed(e, a, b) == [kind |-> "throw", out |-> e, arg |-> a, arg2 |-> b, target |-> NoTarget]

\* Store as it would be without its test of the seed
StoreUnchecked(seed) ==
  LET data == setProp(seed.data, "data")
      mutations == setProp(seed.mutations, "mutations")
      actions == setProp(seed.actions, "actions")
  IN IF data.kind = "throw" THEN NotConstructed(data.out, data.arg, data.arg2)
     ELSE IF mutations.kind = "throw"
       THEN NotConstructed(mutations.out, mutations.arg, mutations.arg2)
     ELSE IF actions.kind = "throw"
       THEN NotConstructed(actions.out, actions.arg, actions.arg2)
     ELSE IF ~props(data.obj) /\ ~props(mutations.obj)
       THEN NotConstructed("NoPointError", "", "")
     ELSE Constructed([data |-> data.obj, mutations |-> mutations.obj,
                       actions |-> actions.obj])

Store(seed) ==
  IF seed.kind # "object" THEN NotConstructed("SeedRequiredError", "", "")
  ELSE
    LET data == setProp(seed.data, "data")
        mutations == setProp(seed.mutations, "mutations")
        actions == setProp(seed.actions, "actions")
    IN IF data.kind = "throw" THEN NotConstructed(data.out, data.arg, data.arg2)
       ELSE IF mutations.kind = "throw"
         THEN NotConstructed(mutations.out, mutations.arg, mutations.arg2)
       ELSE IF actions.kind = "throw"
         THEN NotConstructed(actions.out, actions.arg, actions.arg2)
       ELSE IF ~props(data.obj) /\ ~props(mutations.obj)
         THEN NotConstructed("NoPointError", "", "")
       ELSE Constructed([data |-> data.obj, mutations |-> mutations.obj,
                         actions |-> actions.obj])

\* the seed groups Store reads, in the order it reads them: it stops at the
\* first group setProp rejects, and reads none when it rejects the seed
StoreReads(seed) ==
  IF seed.kind # "object" THEN <<>>
  ELSE IF setProp(seed.data, "data").kind = "throw" THEN <<"data">>
  ELSE IF setProp(seed.mutations, "mutations").kind = "throw" THEN <<"data", "mutations">>
  ELSE <<"data", "mutations", "actions">>

\* the producers Store invokes, in order: setProp calls value() when the
\* group it is given is a function
StoreCalls(seed) ==
  SelectSeq(StoreReads(seed), LAMBDA g : RawTypeOf(seed[g]) = "function")

\* ------------------------------------------------------------------------
\* Caller-supplied functions, as the dispatcher calls them
\* ------------------------------------------------------------------------
Ran(d, res) == [data |-> d, res |-> res]

\* this.mutations[name](this.data, value): the data afterwards and the result
CallMutation(fn, data, value) ==
  CASE fn = "fn:set_a" -> Ran(PutProp(data, "a", value), Return(value))
    [] fn = "fn:setX" -> Ran(PutProp(data, "x", value), Return(Undefined))
    [] fn = "fn:put" ->
         Ran(IF TypeOf(value) = "string" THEN PutProp(data, value, "yz") ELSE data,
             Return(Undefined))
    [] fn = "fn:del" ->
         Ran(IF TypeOf(value) = "string" THEN DeleteProp(data, value) ELSE data,
             Return(Undefined))
    [] fn = "fn:getState" -> Ran(data, Return(DataRef))
    [] fn = "fn:setBoth" ->
         Ran(PutProp(PutProp(data, "a", value), "x", value), Return(Undefined))
    [] fn = "fn:Object.prototype.toString" -> Ran(data, Return("[object Object]"))
    [] fn = "fn:Object" -> Ran(data, Return(DataRef))
    [] OTHER -> Ran(data, Throw("TypeError", "not a function"))

\* ------------------------------------------------------------------------
\* The dispatcher: commit and action, with `this` the root record
\* ------------------------------------------------------------------------
Dispatched(t, res, calls, spawned) ==
  [target |-> t, res |-> res, calls |-> calls, spawned |-> spawned]

\* commit as it would be without `return ret`
commitDropsResult(this, name, value) ==
  IF Truthy(GetProp(this.mutations, name))
  THEN LET fn == GetProp(this.mutations, name)
           ran == CallMutation(fn, this.data, value)
           after == [this EXCEPT !.data = ran.data]
           calls == <<Call(fn, DataRef, value)>>
       IN IF ran.res.kind = "throw" THEN Dispatched(after, ran.res, calls, FALSE)
          ELSE IF FirstReserved(ran.data) # ""
            THEN Dispatched(after, Throw("DontTouchMyReservedwords", FirstReserved(ran.data)),
                            calls, FALSE)
          ELSE Dispatched(after, Return(Undefined), calls, FALSE)
  ELSE Dispatched(this, Throw("NoSuchMutationError", name), <<>>, FALSE)

\* commit as it would be if it handed the mutation this.mutations, not this.data
commitOnMutations(this, name, value) ==
  IF Truthy(GetProp(this.mutations, name))
  THEN LET fn == GetProp(this.mutations, name)
           ran == CallMutation(fn, this.mutations, value)
           after == [this EXCEPT !.mutations = ran.data]
           calls == <<Call(fn, MutationsRef, value)>>
       IN Dispatched(after, ran.res, calls, FALSE)
  ELSE Dispatched(this, Throw("NoSuchMutationError", name), <<>>, FALSE)

\* commit as it would be if it undid the mutation's writes before raising
commitRollsBack(this, name, value) ==
  IF Truthy(GetProp(this.mutations, name))
  THEN LET fn == GetProp(this.mutations, name)
           ran == CallMutation(fn, this.data, value)
           after == [this EXCEPT !.data = ran.data]
           calls == <<Call(fn, DataRef, value)>>
       IN IF ran.res.kind = "throw" THEN Dispatched(after, ran.res, calls, FALSE)
          ELSE IF FirstReserved(ran.data) # ""
            THEN Dispatched(this, Throw("DontTouchMyReservedwords", FirstReserved(ran.data)),
                            calls, FALSE)
          ELSE Dispatched(after, ran.res, calls, FALSE)
  ELSE Dispatched(this, Throw("NoSuchMutationError", name), <<>>, FALSE)

\* commit as it would be without the re-scan of the keys of data
commitNoRescan(this, name, value) ==
  IF Truthy(GetProp(this.mutations, name))
  THEN LET fn == GetProp(this.mutations, name)
           ran == CallMutation(fn, this.data, value)
           after == [this EXCEPT !.data = ran.data]
           calls == <<Call(fn, DataRef, value)>>
       IN Dispatched(after, ran.res, calls, FALSE)
  ELSE Dispatched(this, Throw("NoSuchMutationError", name), <<>>, FALSE)

commit(this, name, value) ==
  IF Truthy(GetProp(this.mutations, name))
  THEN LET fn == GetProp(this.mutations, name)
           ran == CallMutation(fn, this.data, value)
           after == [this EXCEPT !.data = ran.data]
           calls == <<Call(fn, DataRef, value)>>
       IN IF ran.res.kind = "throw" THEN Dispatched(after, ran.res, calls, FALSE)
          ELSE IF FirstReserved(ran.data) # ""
            THEN Dispatched(after, Throw("DontTouchMyReservedwords", FirstReserved(ran.data)),
                            calls, FALSE)
          ELSE Dispatched(after, ran.res, calls, FALSE)
  ELSE Dispatched(this, Throw("NoSuchMutationError", name), <<>>, FALSE)

\* this.actions[name](commit.bind(this), value)
CallAction(fn, this, value) ==
  LET call == <<Call(fn, BoundCommit, value)>>
  IN CASE fn = "fn:now" ->
            LET c == commit(this, "put", value)
            IN Dispatched(c.target, c.res, call \o c.calls, FALSE)
       [] fn = "fn:idle" -> Dispatched(this, Return(value), call, FALSE)
       [] fn = "fn:go" -> Dispatched(this, Return(PromiseRef), call, TRUE)
       [] fn = "fn:goBoth" -> Dispatched(this, Return(PromiseRef), call, TRUE)
       [] fn = "fn:Object.prototype.toString" ->
            Dispatched(this, Return("[object Object]"), call, FALSE)
       [] fn = "fn:Object" -> Dispatched(this, Return(BoundCommit), call, FALSE)
       [] OTHER -> Dispatched(this, Throw("TypeError", "not a function"), call, FALSE)

\* the rest of fn:go as it would be if its commit were dropped
ResumeGoDropped(this, value) == Dispatched(this, Return(Undefined), <<>>, FALSE)

\* the rest of fn:go, run when its delay has elapsed: commit('setX', v)
ResumeGo(this, value) == commit(this, "setX", value)

\* action as it would be if it awaited the action's promise before returning
actionAwaits(this, name, value) ==
  IF Truthy(GetProp(this.actions, name))
  THEN LET a == CallAction(GetProp(this.actions, name), this, value)
       IN IF a.spawned
          THEN LET c == ResumeGo(a.target, value)
               IN Dispatched(c.target, a.res, a.calls \o c.calls, FALSE)
          ELSE a
  ELSE Dispatched(this, Throw("NoSuchActionError", name), <<>>, FALSE)

action(this, name, value) ==
  IF Truthy(GetProp(this.actions, name))
  THEN CallAction(GetProp(this.actions, name), this, value)
  ELSE Dispatched(this, Throw("NoSuchActionError", name), <<>>, FALSE)

\* ------------------------------------------------------------------------
\* The access guard: the Proxy handler and the frozen Proxy around it
\* ------------------------------------------------------------------------
\* handler.get as it would be without its trap for `data`
HandlerGetNoTrap(t, prop) ==
  IF prop = "commit" THEN Return(BoundCommit)
  ELSE IF prop = "action" THEN Return(BoundAction)
  ELSE IF Truthy(GetProp(t.data, prop)) THEN Return(GetProp(t.data, prop))
  ELSE Return(Undefined)

HandlerGet(t, prop) ==
  IF prop = "commit" THEN Return(BoundCommit)
  ELSE IF prop = "action" THEN Return(BoundAction)
  ELSE IF prop = "data" THEN Throw("NoDirectAccessForYou", "you must use a mutation.")
  ELSE IF Truthy(GetProp(t.data, prop)) THEN Return(GetProp(t.data, prop))
  ELSE Return(Undefined)

\* handler.set as it would be if it stored the value: target.data[prop] = value
HandlerSetStores(t, prop, value) ==
  [target |-> [t EXCEPT !.data = PutProp(t.data, prop, value)], ok |-> TRUE]

\* handler.set: the root record afterwards and the trap's result
HandlerSet(t, prop, value) == [target |-> t, ok |-> TRUE]

\* Object.freeze(new Proxy({ data, mutations, actions }, handler)) freezes
\* the root record: its three own properties become non-writable and
\* non-configurable, and the Proxy then refuses a trap result that differs
\* from the value of such a property.
FrozenKeys == {"data", "mutations", "actions"}

SlotRef(prop) ==
  CASE prop = "data" -> DataRef
    [] prop = "mutations" -> MutationsRef
    [] prop = "actions" -> ActionsRef

\* handle[prop]
ProxyGet(t, prop) ==
  LET r == HandlerGet(t, prop)
  IN IF r.kind = "throw" THEN r
     ELSE IF prop \in FrozenKeys /\ r.out # SlotRef(prop)
       THEN Throw("TypeError", "'get' on proxy")
     ELSE r

\* handle[prop] = value
ProxySet(t, prop, value) ==
  LET s == HandlerSet(t, prop, value)
      res == IF ~s.ok THEN Throw("TypeError", "'set' on proxy: trap returned falsish")
             ELSE IF prop \in FrozenKeys /\ value # SlotRef(prop)
               THEN Throw("TypeError", "'set' on proxy")
             ELSE Return(value)
  IN [target |-> s.target, res |-> res]

\* ------------------------------------------------------------------------
\* The stores explored, and what callers do with a handle
\* ------------------------------------------------------------------------
SetA == Prop("set_a", "fn:set_a")

SetX == Prop("setX", "fn:setX")

Go == Prop("go", "fn:go")

\* new Store({ data: { a: 'bc' } })
SeedDataOnly ==
  SeedObject(ObjectValue(<<Prop("a", "bc")>>), PrimitiveValue(Undefined),
             PrimitiveValue(Undefined))

\* new Store({ data: { x: null }, mutations: () => ({ setX }), actions: () => ({ go }) })
SeedAsync ==
  SeedObject(ObjectValue(<<Prop("x", Null)>>), ProducerOfObject(<<SetX>>),
             ProducerOfObject(<<Go>>))

\* a store with no data, the synchronous mutations and the synchronous actions
SeedSync ==
  SeedObject(PrimitiveValue(Undefined),
             ObjectValue(<<SetA, Prop("put", "fn:put"), Prop("del", "fn:del"),
                           Prop("getState", "fn:getState")>>),
             ObjectValue(<<Prop("now", "fn:now"), Prop("idle", "fn:idle")>>))

Seeds == {SeedDataOnly, SeedAsync, SeedSync}

\* property keys read and written on the handle
Props == {"a", "x", "yz", "data", "commit", "action", "mutations", "actions", "toString"}

\* values passed to commit(name, v)
Values == {Null, "yz", "data", "commit", "mutations"}

\* values passed to action(name, v)
ActionValues == {Null, "yz", "data"}

\* values passed to handle[k] = v
SetValues == {Null, "yz"}

\* names passed to commit and action
MutationNames == {"set_a", "setX", "put", "del", "getState", "nope", "toString", "constructor"}

ActionNames == {"go", "now", "idle", "nope", "toString"}

Did(op, key, value, res, calls, task) ==
  [op |-> op, key |-> key, value |-> value, res |-> res, calls |-> calls, task |-> task]

\* no commit is executing
Idle == [fn |-> "", value |-> "", pc |-> 0]

Init ==
  /\ \E seed \in Seeds :
       /\ Store(seed).kind = "return"
       /\ target = Store(seed).target
       /\ seedObj = seed
  /\ tasks = <<>>
  /\ last = Did("new", "", "", Return(""), <<>>, 0)
  /\ other = NoTarget
  /\ links = {}
  /\ running = Idle

\* handle[prop]
Get(prop) ==
  /\ last' = Did("get", prop, "", ProxyGet(target, prop), <<>>, 0)
  /\ UNCHANGED <<target, tasks>>
  /\ UNCHANGED env

\* handle[prop] = value
Set(prop, value) ==
  LET w == ProxySet(target, prop, value)
  IN /\ target' = w.target
     /\ last' = Did("set", prop, value, w.res, <<>>, 0)
     /\ UNCHANGED tasks
     /\ UNCHANGED env

\* handle.commit(name, value)
Commit(name, value) ==
  LET c == commit(target, name, value)
  IN /\ Len(c.target.data) <= MaxKeys
     /\ target' = c.target
     /\ last' = Did("commit", name, value, c.res, c.calls, 0)
     /\ UNCHANGED tasks
     /\ UNCHANGED env

\* handle.action(name, value): runs the action up to its first await
Action(name, value) ==
  LET a == action(target, name, value)
  IN /\ a.spawned => Len(tasks) < MaxTasks
     /\ Len(a.target.data) <= MaxKeys
     /\ target' = a.target
     /\ tasks' = IF a.spawned
                 THEN Append(tasks, [fn |-> GetProp(target.actions, name), value |-> value])
                 ELSE tasks
     /\ last' = Did("action", name, value, a.res, a.calls,
                    IF a.spawned THEN Len(tasks) + 1 ELSE 0)
     /\ UNCHANGED env

\* the delay of the i-th suspended action elapses: it commits, and its promise
\* is fulfilled, or rejected when the commit throws
Resume(i) ==
  LET c == ResumeGo(target, tasks[i].value)
  IN /\ Len(c.target.data) <= MaxKeys
     /\ target' = c.target
     /\ tasks' = SubSeq(tasks, 1, i - 1) \o SubSeq(tasks, i + 1, Len(tasks))
     /\ last' = Did("resume", "go", tasks[i].value, c.res, c.calls, i)
     /\ UNCHANGED env

Next ==
  \/ \E prop \in Props : Get(prop)
  \/ \E prop \in Props, value \in SetValues : Set(prop, value)
  \/ \E name \in MutationNames, value \in Values : Commit(name, value)
  \/ \E name \in ActionNames, value \in ActionValues : Action(name, value)
  \/ \E i \in 1..Len(tasks) : Resume(i)

Spec == Init /\ [][Next]_vars

\* ------------------------------------------------------------------------
\* Construction on its own: new Store(seed) for every seed of NewSeeds
\* ------------------------------------------------------------------------
DataGroups ==
  { PrimitiveValue(Undefined), PrimitiveValue(Null), PrimitiveValue("<0>"),
    PrimitiveValue("abc"),
    ObjectValue(EmptyObject), ObjectValue(<<Prop("a", "bc")>>),
    ObjectValue(<<Prop("data", "yz")>>),
    ObjectValue(<<Prop("a", "<0>"), Prop("commit", "yz"), Prop("action", Null)>>),
    ProducerOfObject(<<Prop("x", Null)>>), ProducerOfObject(<<Prop("action", "yz")>>),
    ProducerOfObject(EmptyObject),
    ProducerOfValue("data"), ProducerOfValue(Undefined) }

MutationGroups ==
  { PrimitiveValue(Undefined), PrimitiveValue("abc"),
    ObjectValue(EmptyObject), ObjectValue(<<SetA>>),
    ObjectValue(<<Prop("set_a", "<0>")>>),
    ObjectValue(<<SetA, Prop("bad", "yz"), Prop("worse", Null)>>),
    ObjectValue(<<Prop("commit", "fn:put")>>),
    ObjectValue(<<Prop("bad", "<false>"), Prop("data", "<0>")>>),
    ProducerOfObject(<<SetX>>), ProducerOfObject(<<Prop("action", "fn:del")>>),
    ProducerOfValue(Null) }

ActionGroups ==
  { PrimitiveValue(Undefined), PrimitiveValue(""),
    ObjectValue(<<Go>>), ObjectValue(<<Prop("go", "yz")>>),
    ObjectValue(<<Prop("action", "fn:go")>>),
    ProducerOfObject(<<Prop("data", "fn:idle")>>), ProducerOfValue("<0>") }

NewSeeds ==
  {SeedObject(d, m, a) : d \in DataGroups, m \in MutationGroups, a \in ActionGroups}
    \cup {SeedValue(p) : p \in {Undefined, Null, "<0>", "abc"}}
    \cup {SeedFunction(d, PrimitiveValue(Undefined), PrimitiveValue(Undefined)) :
            d \in DataGroups}

InitNew ==
  /\ seedObj \in NewSeeds
  /\ target = NoTarget
  /\ tasks = <<>>
  /\ last = Did("none", "", "", Return(""), <<>>, 0)
  /\ other = NoTarget
  /\ links = {}
  /\ running = Idle

\* new Store(seedObj)
New ==
  LET made == Store(seedObj)
  IN /\ last.op = "none"
     /\ target' = made.target
     /\ last' = Did("new", "", "",
                    [kind |-> made.kind, out |-> made.out, arg |-> made.arg,
                     arg2 |-> made.arg2],
                    StoreCalls(seedObj), 0)
     /\ UNCHANGED <<tasks, seedObj, other, links, running>>

NextNew == New

SpecNew == InitNew /\ [][NextNew]_vars

\* ------------------------------------------------------------------------
\* Two stores built from one seed the caller keeps and edits
\* ------------------------------------------------------------------------
\* Which object a reference designates: the object the caller placed in the
\* seed, or an object made during construction.
SeedRef == "ref:seed"

NewRef == "ref:new"

\* the object `ret` designates in setProp: {} and the result of a producer
\* are new objects, a group given as an object is the caller's own
RetRef(value) == IF value.kind = "object" THEN SeedRef ELSE NewRef

\* Object.assign(dst, src) returns dst
ObjectAssignRef(dst, src) == dst

\* setProp as it would be if it returned validate(ret, types, desc) itself
setPropRefNoCopy(value) == RetRef(value)

\* the object setProp returns: Object.assign({}, validate(ret, types, desc))
setPropRef(value) == ObjectAssignRef(NewRef, RetRef(value))

StoreNames == {"A", "B"}

\* the groups of each store that are the caller's own object
LinksOf(seed) ==
  {l \in StoreNames \X {"data", "mutations", "actions"} : setPropRef(seed[l[2]]) = SeedRef}

\* new Store({ data: { a: 'bc' }, mutations: { set_a, put }, actions: { now } })
SeedPlain ==
  SeedObject(ObjectValue(<<Prop("a", "bc")>>),
             ObjectValue(<<SetA, Prop("put", "fn:put")>>),
             ObjectValue(<<Prop("now", "fn:now")>>))

\* the same seed with a producer for each group
SeedProduced ==
  SeedObject(ProducerOfObject(<<Prop("a", "bc")>>),
             ProducerOfObject(<<SetA, Prop("put", "fn:put")>>),
             ProducerOfObject(<<Prop("now", "fn:now")>>))

TwoSeeds == {SeedPlain, SeedProduced}

TwoMutationNames == {"set_a", "put"}

TwoActionNames == {"now"}

TwoValues == {"yz", "data"}

\* keys and values of the caller's edits of a group of the seed
EditKeys(g) ==
  CASE g = "data" -> {"a", "yz"}
    [] g = "mutations" -> {"set_a", "yz"}
    [] g = "actions" -> {"now", "yz"}

EditValues(g) == IF g = "data" THEN {"yz"} ELSE {"fn:del"}

StoreOf(s) == IF s = "A" THEN target ELSE other

OtherName(s) == IF s = "A" THEN "B" ELSE "A"

InitTwo ==
  /\ seedObj \in TwoSeeds
  /\ target = Store(seedObj).target
  /\ other = Store(seedObj).target
  /\ links = LinksOf(seedObj)
  /\ tasks = <<>>
  /\ last = Did("new", "", "", Return(""), <<>>, 0)
  /\ running = Idle

\* store s has run d; what its data object is to others follows the links
Operate(s, op, name, value, d) ==
  LET shared == <<s, "data">> \in links
      o == OtherName(s)
      peer == IF shared /\ <<o, "data">> \in links
              THEN [StoreOf(o) EXCEPT !.data = d.target.data]
              ELSE StoreOf(o)
  IN /\ ~d.spawned
     /\ Len(d.target.data) <= MaxKeys
     /\ target' = IF s = "A" THEN d.target ELSE peer
     /\ other' = IF s = "B" THEN d.target ELSE peer
     /\ seedObj' = IF shared THEN [seedObj EXCEPT !.data.obj = d.target.data] ELSE seedObj
     /\ last' = Did(op, name, value, d.res, d.calls, 0)
     /\ UNCHANGED <<tasks, links, running>>

\* storeA.commit(name, value), storeB.commit(name, value)
CommitIn(s, name, value) ==
  Operate(s, IF s = "A" THEN "A.commit" ELSE "B.commit", name, value,
          commit(StoreOf(s), name, value))

\* storeA.action(name, value), storeB.action(name, value)
ActionIn(s, name, value) ==
  Operate(s, IF s = "A" THEN "A.action" ELSE "B.action", name, value,
          action(StoreOf(s), name, value))

\* the caller's object for group g has become obj
Edited(g, k, v, obj) ==
  /\ seedObj[g].kind = "object"
  /\ Len(obj) <= MaxKeys + 1
  /\ \E seed \in TwoSeeds :
       \A h \in {"data", "mutations", "actions"} \ {g} : seedObj[h] = seed[h]
  /\ seedObj' = [seedObj EXCEPT ![g].obj = obj]
  /\ target' = IF <<"A", g>> \in links THEN [target EXCEPT ![g] = obj] ELSE target
  /\ other' = IF <<"B", g>> \in links THEN [other EXCEPT ![g] = obj] ELSE other
  /\ last' = Did("edit", k, v, Return(Undefined), <<>>, 0)
  /\ UNCHANGED <<tasks, links, running>>

\* seed[g][k] = v, by the caller, after construction
PutSeedKey(g, k, v) == Edited(g, k, v, PutProp(seedObj[g].obj, k, v))

\* delete seed[g][k], by the caller, after construction
DeleteSeedKey(g, k) ==
  /\ HasOwn(seedObj[g].obj, k)
  /\ Edited(g, k, Undefined, DeleteProp(seedObj[g].obj, k))

NextTwo ==
  \/ \E s \in StoreNames, name \in TwoMutationNames, value \in TwoValues :
       CommitIn(s, name, value)
  \/ \E s \in StoreNames, name \in TwoActionNames, value \in TwoValues :
       ActionIn(s, name, value)
  \/ \E g \in {"data", "mutations", "actions"} :
       \E k \in EditKeys(g), v \in EditValues(g) : PutSeedKey(g, k, v)
  \/ \E g \in {"data", "mutations", "actions"} :
       \E k \in EditKeys(g) : DeleteSeedKey(g, k)

SpecTwo == InitTwo /\ [][NextTwo]_vars

\* ------------------------------------------------------------------------
\* One store, statement by statement: commits of a mutation that writes
\* twice, made directly and by asynchronous actions when they resume
\* ------------------------------------------------------------------------
\* new Store({ data: { a: null, x: null },
\*             mutations: { setBoth: (state, v) => { state.a = v; state.x = v; } },
\*             actions: { goBoth: async (commit, v) => { await delay(1); commit('setBoth', v); } } })
SeedSteps ==
  SeedObject(ObjectValue(<<Prop("a", Null), Prop("x", Null)>>),
             ObjectValue(<<Prop("setBoth", "fn:setBoth")>>),
             ObjectValue(<<Prop("goBoth", "fn:goBoth")>>))

StepValues == {"yz", "bc"}

\* the number of statements of a mutation
NSteps(fn) == IF fn = "fn:setBoth" THEN 2 ELSE 1

\* the data after the pc-th statement of the mutation
StepMutation(fn, data, value, pc) ==
  IF fn = "fn:setBoth"
  THEN IF pc = 1 THEN PutProp(data, "a", value) ELSE PutProp(data, "x", value)
  ELSE CallMutation(fn, data, value).data

\* commit as it would be if it were asynchronous and awaited between the
\* statements of the mutation
CommitYieldsMidway(pc) == pc = 2

\* whether commit, about to run statement pc of the mutation, hands control
\* back to the event loop: it is a plain function without await
CommitYields(pc) == FALSE

\* a callback can start: nothing is executing, or what executes has yielded
CanStart == running = Idle \/ CommitYields(running.pc)

\* the suspended computations once a callback has started
Suspended(ts) == IF running = Idle THEN ts ELSE Append(ts, running)

Without(ts, i) == SubSeq(ts, 1, i - 1) \o SubSeq(ts, i + 1, Len(ts))

InitSteps ==
  /\ seedObj = SeedSteps
  /\ target = Store(seedObj).target
  /\ other = NoTarget
  /\ links = {}
  /\ tasks = <<>>
  /\ last = Did("new", "", "", Return(""), <<>>, 0)
  /\ running = Idle

\* handle.commit(name, value) is called: the mutation is looked up and entered
CommitBegin(name, value) ==
  /\ CanStart
  /\ Len(Suspended(tasks)) <= MaxTasks
  /\ Truthy(GetProp(target.mutations, name))
  /\ running' = [fn |-> GetProp(target.mutations, name), value |-> value, pc |-> 1]
  /\ tasks' = Suspended(tasks)
  /\ last' = Did("begin", name, value, Return(Undefined), <<>>, 0)
  /\ UNCHANGED <<target, seedObj, other, links>>

\* the mutation executes its next statement
MutationStep ==
  /\ running # Idle
  /\ running.pc <= NSteps(running.fn)
  /\ target' = [target EXCEPT !.data = StepMutation(running.fn, @, running.value, running.pc)]
  /\ running' = [running EXCEPT !.pc = @ + 1]
  /\ last' = Did("step", "", running.value, Return(Undefined), <<>>, 0)
  /\ UNCHANGED <<tasks, seedObj, other, links>>

\* the mutation has returned: commit scans the keys of data and returns
CommitEnd ==
  /\ running # Idle
  /\ running.pc = NSteps(running.fn) + 1
  /\ running' = Idle
  /\ last' = Did("commit", "", running.value,
                 IF FirstReserved(target.data) # ""
                 THEN Throw("DontTouchMyReservedwords", FirstReserved(target.data))
                 ELSE CallMutation(running.fn, target.data, running.value).res,
                 <<Call(running.fn, DataRef, running.value)>>, 0)
  /\ UNCHANGED <<target, tasks, seedObj, other, links>>

\* handle.action(name, value): the asynchronous action runs up to its await
ActionStart(name, value) ==
  LET a == action(target, name, value)
  IN /\ CanStart
     /\ a.spawned
     /\ Len(tasks) < MaxTasks
     /\ tasks' = Append(tasks, [fn |-> GetProp(target.actions, name), value |-> value, pc |-> 0])
     /\ last' = Did("action", name, value, a.res, a.calls, Len(tasks) + 1)
     /\ UNCHANGED <<target, running, seedObj, other, links>>

\* the event loop resumes the i-th suspended computation: an action, which
\* then calls commit('setBoth', v), or a commit that had yielded
ResumeStep(i) ==
  /\ CanStart
  /\ running' = IF tasks[i].pc = 0
                THEN [fn |-> GetProp(target.mutations, "setBoth"),
                      value |-> tasks[i].value, pc |-> 1]
                ELSE tasks[i]
  /\ tasks' = Suspended(Without(tasks, i))
  /\ last' = Did("resume", "goBoth", tasks[i].value, Return(Undefined), <<>>, i)
  /\ UNCHANGED <<target, seedObj, other, links>>

NextSteps ==
  \/ \E value \in StepValues : CommitBegin("setBoth", value)
  \/ MutationStep
  \/ CommitEnd
  \/ \E value \in StepValues : ActionStart("goBoth", value)
  \/ \E i \in 1..Len(tasks) : ResumeStep(i)

SpecSteps == InitSteps /\ [][NextSteps]_vars

\* ------------------------------------------------------------------------
\* Properties
\* ------------------------------------------------------------------------
\* the step just taken ran commit to its end without an error
CommitSucceeded(l) ==
  /\ l.op \in {"commit", "action", "resume"}
  /\ l.res.kind = "return"
  /\ \E i \in 1..Len(l.calls) : l.calls[i].a1 = DataRef

\* C1: after construction data changes only during a successful commit,
\* made on the handle or through the bound commit of an action; reads,
\* writes, failed commits, failed dispatches and actions that do not commit
\* leave data alone.
C1_DataChangesOnlyInSuccessfulCommit ==
  [][target'.data # target.data => CommitSucceeded(last')]_vars

\* C2: handle[k] = v leaves data, mutations and actions unchanged, and a
\* read of handle[k] right after it gives what a read right before it gave;
\* it gives v only if it gave v before.
C2_SetIsNoOp ==
  [][last'.op = "set" =>
       /\ target' = target
       /\ ProxyGet(target', last'.key) = ProxyGet(target, last'.key)
       /\ ProxyGet(target', last'.key) = Return(last'.value)
            => ProxyGet(target, last'.key) = Return(last'.value)]_vars

\* a write of 'yz' to the key a of a store whose a is 'bc' has been made
C2_Witness ==
  /\ last.op = "set"
  /\ last.key = "a"
  /\ last.value = "yz"
  /\ ProxyGet(target, "a") = Return("bc")

\* C3: a write of any key on the handle, the keys data, commit and action
\* included, never raises an error.
C3_SetNeverRaises == last.op = "set" => last.res.kind = "return"

\* C4: in every reachable state no key of data, mutations or actions is a
\* reserved word.
C4_NoReservedKeys ==
  /\ FirstReserved(target.data) = ""
  /\ FirstReserved(target.mutations) = ""
  /\ FirstReserved(target.actions) = ""

\* C5: a read of the key data on the handle fails with NoDirectAccessForYou
\* in every reachable state, whatever data holds; it never returns the
\* data mapping.
C5_DataReadTrapped ==
  /\ ProxyGet(target, "data") = Throw("NoDirectAccessForYou", "you must use a mutation.")
  /\ (last.op = "get" /\ last.key = "data") =>
       /\ last.res.kind = "throw"
       /\ last.res.out = "NoDirectAccessForYou"

\* handle.data has been read while data itself holds a key named data
C5_Witness ==
  /\ last.op = "get"
  /\ last.key = "data"
  /\ HasOwn(target.data, "data")

\* the keys whose value in `after` is not the one they had in `before`
Written(before, after) ==
  {k \in OwnKeys(after) : ~HasOwn(before, k) \/ GetOwn(before, k) # GetOwn(after, k)}

\* C6 as claimed: commit(name, value) for a registered mutation invokes it
\* exactly once with (data, value), returns the mutation's return value, and
\* every key the mutation wrote reads on the handle as the value written.
C6_CommitReturnsAndShows ==
  [][(last'.op = "commit" /\ HasOwn(target.mutations, last'.key)) =>
       LET fn == GetOwn(target.mutations, last'.key)
           ran == CallMutation(fn, target.data, last'.value)
       IN /\ last'.calls = <<Call(fn, DataRef, last'.value)>>
          /\ target'.data = ran.data
          /\ last'.res = ran.res
          /\ \A k \in Written(target.data, target'.data) :
               ProxyGet(target', k) = Return(GetOwn(target'.data, k))]_vars

\* C6 (amended): commit(name, value) for a registered mutation invokes it
\* exactly once with (data, value); it returns the mutation's return value
\* unless the mutation left a reserved word as a key of data, and then it
\* raises DontTouchMyReservedwords naming the first such key; every write
\* of the mutation is in data when commit ends, and a written key that is
\* neither a reserved word nor mutations nor actions reads on the handle as
\* the value written when that value is truthy, as undefined when it is falsy.
C6_CommitReturnsUnlessReserved ==
  [][(last'.op = "commit" /\ HasOwn(target.mutations, last'.key)) =>
       LET fn == GetOwn(target.mutations, last'.key)
           ran == CallMutation(fn, target.data, last'.value)
       IN /\ last'.calls = <<Call(fn, DataRef, last'.value)>>
          /\ target'.data = ran.data
          /\ last'.res = IF FirstReserved(ran.data) # ""
                         THEN Throw("DontTouchMyReservedwords", FirstReserved(ran.data))
                         ELSE ran.res
          /\ \A k \in Written(target.data, target'.data) :
               (~Includes(RESERVEDWORDS, k) /\ k \notin {"mutations", "actions"}) =>
                 ProxyGet(target', k) = IF Truthy(GetOwn(target'.data, k))
                                        THEN Return(GetOwn(target'.data, k))
                                        ELSE Return(Undefined)]_vars

\* commit('set_a', 'yz') has returned 'yz' and handle.a reads 'yz'
C6_Witness ==
  /\ last.op = "commit"
  /\ last.key = "set_a"
  /\ last.value = "yz"
  /\ last.res = Return("yz")
  /\ ProxyGet(target, "a") = Return("yz")

\* C7: commit(name, value) with a name that is not a key of the mutations
\* mapping fails with NoSuchMutationError naming it, invokes no function and
\* leaves data unchanged.
C7_UnregisteredMutationFails ==
  [][(last'.op = "commit" /\ ~HasOwn(target.mutations, last'.key)) =>
       /\ last'.res = Throw("NoSuchMutationError", last'.key)
       /\ last'.calls = <<>>
       /\ target'.data = target.data]_vars

\* C8: action(name, value) with a name that is not a key of the actions
\* mapping fails with NoSuchActionError naming it, invokes no function,
\* performs no commit and leaves data unchanged.
C8_UnregisteredActionFails ==
  [][(last'.op = "action" /\ ~HasOwn(target.actions, last'.key)) =>
       /\ last'.res = Throw("NoSuchActionError", last'.key)
       /\ last'.calls = <<>>
       /\ tasks' = tasks
       /\ target'.data = target.data]_vars

\* what action(name, value) does for a registered action: it calls the
\* action with (the bound commit, value) and returns its result as it is;
\* an asynchronous action is left suspended, its commit not yet applied
DispatchesWithoutAwaiting ==
  (last'.op = "action" /\ HasOwn(target.actions, last'.key)) =>
    LET fn == GetOwn(target.actions, last'.key)
    IN /\ last'.calls # <<>>
       /\ last'.calls[1] = Call(fn, BoundCommit, last'.value)
       /\ fn = "fn:idle" => (last'.res = Return(last'.value) /\ target' = target)
       /\ fn = "fn:now" => last'.res = commit(target, "put", last'.value).res
       /\ fn = "fn:go" =>
            /\ last'.res = Return(PromiseRef)
            /\ target' = target
            /\ tasks' = Append(tasks, [fn |-> fn, value |-> last'.value])

\* C9 as claimed: action(name, value) returns the action's result without
\* awaiting it, and once the promise of an asynchronous action that commits
\* has resolved, a read on the handle gives the committed value.
C9_AsyncCommitReadsBack ==
  [][/\ DispatchesWithoutAwaiting
     /\ (last'.op = "resume" /\ last'.res.kind = "return") =>
          ProxyGet(target', "x") = Return(last'.value)]_vars

\* C9 (amended): action(name, value) returns the action's result without
\* awaiting it; once the promise of an asynchronous action that commits has
\* resolved, the committed value is in data, and a read on the handle gives
\* it when it is truthy and undefined when it is falsy.
C9_AsyncCommitApplied ==
  [][/\ DispatchesWithoutAwaiting
     /\ (last'.op = "resume" /\ last'.res.kind = "return") =>
          /\ HasOwn(target'.data, "x")
          /\ GetOwn(target'.data, "x") = last'.value
          /\ ProxyGet(target', "x") = IF Truthy(last'.value) THEN Return(last'.value)
                                      ELSE Return(Undefined)]_vars

\* the promise of action('go', 'yz') has resolved, another action is still
\* suspended, and handle.x reads 'yz'
C9_Witness ==
  /\ last.op = "resume"
  /\ last.res.kind = "return"
  /\ last.value = "yz"
  /\ Len(tasks) > 0
  /\ ProxyGet(target, "x") = Return("yz")

\* C10: a read of a key other than commit, action and data never raises; it
\* gives data's value at the key when that value is truthy and undefined
\* otherwise, so a key with a falsy value reads like a key data lacks.
C10_OtherReadsNeverRaise ==
  (last.op = "get" /\ last.key \notin {"commit", "action", "data"}) =>
    last.res = IF HasOwn(target.data, last.key) /\ Truthy(GetOwn(target.data, last.key))
               THEN Return(GetOwn(target.data, last.key))
               ELSE Return(Undefined)

\* ------------------------------------------------------------------------
\* Properties of construction (under SpecNew)
\* ------------------------------------------------------------------------
GroupNames == <<"data", "mutations", "actions">>

\* the groups Store normalizes before group g
Before(g) ==
  CASE g = "data" -> {}
    [] g = "mutations" -> {"data"}
    [] g = "actions" -> {"data", "mutations"}

\* every group before g is one setProp accepts
ReachesGroup(g) == \A h \in Before(g) : setProp(seedObj[h], h).kind = "return"

\* the mapping the caller placed in a group, directly or through a producer
Placed(raw) ==
  IF raw.kind = "object" \/ (raw.kind = "producer" /\ raw.rk = "object")
  THEN raw.obj
  ELSE <<>>

\* the group is absent or normalizes to a mapping without keys
NormalizesToEmpty(g) ==
  /\ setProp(seedObj[g], g).kind = "return"
  /\ setProp(seedObj[g], g).obj = EmptyObject

NewFailed(e) == last.res.kind = "throw" /\ last.res.out = e /\ target = NoTarget

\* C11 as claimed: a seed object whose data and mutations are absent or
\* normalize to empty mappings fails with NoPointError, whatever its actions.
C11_NoPointWhateverActions ==
  (last.op = "new" /\ seedObj.kind = "object"
     /\ NormalizesToEmpty("data") /\ NormalizesToEmpty("mutations"))
    => NewFailed("NoPointError")

\* C11 (amended): such a seed never yields a handle; construction fails
\* with NoPointError when its actions group normalizes to a mapping, and
\* with the actions group's own error when it does not.
C11_NoPointUnlessActionsInvalid ==
  (last.op = "new" /\ seedObj.kind = "object"
     /\ NormalizesToEmpty("data") /\ NormalizesToEmpty("mutations"))
    => IF setProp(seedObj.actions, "actions").kind = "return"
       THEN NewFailed("NoPointError")
       ELSE /\ NewFailed(setProp(seedObj.actions, "actions").out)
            /\ last.res.out # "NoPointError"

\* a seed with registered actions but no data and no mutations was refused
C11_Witness ==
  /\ last.op = "new"
  /\ NewFailed("NoPointError")
  /\ seedObj.data.kind = "producer"
  /\ seedObj.mutations.kind = "object"
  /\ seedObj.actions.kind = "object"
  /\ Len(seedObj.actions.obj) > 0

\* C12 as claimed: a reserved word placed as a key in any seed group makes
\* construction fail with DontTouchMyReservedwords naming that word.
C12_ReservedKeyNamed ==
  (last.op = "new" /\ seedObj.kind = "object") =>
    \A i \in 1..3 : \A j \in 1..Len(Placed(seedObj[GroupNames[i]])) :
      LET w == Placed(seedObj[GroupNames[i]])[j].k
      IN w \in {"data", "action", "commit"} =>
           (NewFailed("DontTouchMyReservedwords") /\ last.res.arg = w)

\* C12 (amended): a reserved word placed as a key in any seed group makes
\* construction fail; the error is DontTouchMyReservedwords naming that word
\* when every earlier group is valid and the word is the first reserved key
\* of its group in enumeration order.
C12_FirstReservedKeyNamed ==
  (last.op = "new" /\ seedObj.kind = "object") =>
    \A i \in 1..3 : \A j \in 1..Len(Placed(seedObj[GroupNames[i]])) :
      LET g == GroupNames[i]
          w == Placed(seedObj[g])[j].k
          first == \A n \in 1..(j - 1) : Placed(seedObj[g])[n].k \notin {"data", "action", "commit"}
      IN w \in {"data", "action", "commit"} =>
           /\ last.res.kind = "throw"
           /\ target = NoTarget
           /\ (ReachesGroup(g) /\ first) =>
                (NewFailed("DontTouchMyReservedwords") /\ last.res.arg = w)

\* the key data, returned by the producer of the actions group, was refused
C12_Witness ==
  /\ last.op = "new"
  /\ NewFailed("DontTouchMyReservedwords")
  /\ last.res.arg = "data"
  /\ seedObj.actions.kind = "producer"
  /\ ReachesGroup("actions")

\* C13 as claimed: a value that is not callable, under any key of the
\* mutations or actions group, makes construction fail with
\* DisallowedTypeError naming the group and the type of the value; the data
\* group accepts values of any type.
C13_NonCallableNamed ==
  (last.op = "new" /\ seedObj.kind = "object") =>
    /\ \A i \in 2..3 : \A j \in 1..Len(Placed(seedObj[GroupNames[i]])) :
         LET g == GroupNames[i]
             v == Placed(seedObj[g])[j].v
         IN v \notin Functions =>
              /\ NewFailed("DisallowedTypeError")
              /\ last.res.arg = g
              /\ last.res.arg2 = TypeOf(v)
    /\ ~(last.res.out = "DisallowedTypeError" /\ last.res.arg = "data")

\* the group g places no reserved word as a key
NoReservedPlaced(g) ==
  \A n \in 1..Len(Placed(seedObj[g])) :
    Placed(seedObj[g])[n].k \notin {"data", "action", "commit"}

\* C13 (amended): a value that is not callable, under any key of the
\* mutations or actions group, makes construction fail; the error is
\* DisallowedTypeError naming the group and the type of the value when every
\* earlier group is valid, the group holds no reserved key and the value is
\* the first of the group, in enumeration order, that is not callable; the
\* data group accepts values of any type.
C13_FirstNonCallableNamed ==
  (last.op = "new" /\ seedObj.kind = "object") =>
    /\ \A i \in 2..3 : \A j \in 1..Len(Placed(seedObj[GroupNames[i]])) :
         LET g == GroupNames[i]
             v == Placed(seedObj[g])[j].v
             first == \A n \in 1..(j - 1) : Placed(seedObj[g])[n].v \in Functions
         IN v \notin Functions =>
              /\ last.res.kind = "throw"
              /\ target = NoTarget
              /\ (ReachesGroup(g) /\ NoReservedPlaced(g) /\ first) =>
                   /\ NewFailed("DisallowedTypeError")
                   /\ last.res.arg = g
                   /\ last.res.arg2 = TypeOf(v)
    /\ ~(last.res.out = "DisallowedTypeError" /\ last.res.arg = "data")

\* the string under a key of the actions group was refused, after a data
\* group holding a string and a mutations group of functions were accepted
C13_Witness ==
  /\ last.op = "new"
  /\ NewFailed("DisallowedTypeError")
  /\ last.res.arg = "actions"
  /\ last.res.arg2 = "string"
  /\ Len(Placed(seedObj.mutations)) > 0
  /\ \E n \in 1..Len(Placed(seedObj.data)) : TypeOf(Placed(seedObj.data)[n].v) = "string"

\* what the claim takes a group to resolve to: the result of the producer,
\* an empty mapping when the group is absent (undefined or null), the group
\* as it is otherwise
Resolved(raw) ==
  IF raw.kind = "producer" THEN ProducerResult(raw)
  ELSE IF raw \in {PrimitiveValue(Undefined), PrimitiveValue(Null)}
       THEN ObjectValue(EmptyObject)
  ELSE raw

\* C14: a seed group resolves as above, and when what it resolves to is not
\* an object (a primitive, or the primitive or nothing a producer returned),
\* construction fails with ValidationError naming the group.
C14_NotAnObjectFails ==
  (last.op = "new" /\ seedObj.kind = "object") =>
    \A i \in 1..3 :
      LET g == GroupNames[i]
      IN (ReachesGroup(g) /\ RawTypeOf(Resolved(seedObj[g])) # "object") =>
           (NewFailed("ValidationError") /\ last.res.arg = g)

\* C15: construction with no seed, a null seed or a seed that is not an
\* object fails with SeedRequiredError, before any group of the seed is read
\* and before any producer is invoked.
C15_SeedRequired ==
  (last.op = "new" /\ seedObj.kind # "object") =>
    /\ NewFailed("SeedRequiredError")
    /\ StoreReads(seedObj) = <<>>
    /\ last.calls = <<>>

\* a function whose data property is a producer was passed as the seed
C15_Witness ==
  /\ last.op = "new"
  /\ seedObj.kind = "function"
  /\ seedObj.data.kind = "producer"
  /\ NewFailed("SeedRequiredError")

\* ------------------------------------------------------------------------
\* Properties of the dispatcher (under Spec)
\* ------------------------------------------------------------------------
\* C17: the data mapping is never handed to the caller: no read on the
\* handle, no commit and no action returns a reference to the data mapping
\* itself.
C17_DataNeverHandedOut ==
  last.op \in {"get", "commit", "action"} =>
    ~(last.res.kind = "return" /\ last.res.out = DataRef)

\* the last operation ran a mutation: a function was called with the data mapping
MutationRan == \E i \in 1..Len(last.calls) : last.calls[i].a1 = DataRef

\* C19: when the mutation a commit has run leaves a reserved word as a key of
\* data, the commit fails with DontTouchMyReservedwords naming such a key and
\* does not return what the mutation returned; so does a commit made through
\* the bound commit inside an action.
C19_ReservedKeyFailsCommit ==
  (/\ last.op \in {"commit", "action", "resume"}
   /\ MutationRan
   /\ FirstReserved(target.data) # "") =>
    /\ last.res.kind = "throw"
    /\ last.res.out = "DontTouchMyReservedwords"
    /\ Includes(RESERVEDWORDS, last.res.arg)
    /\ HasOwn(target.data, last.res.arg)

\* an action committed through its bound commit, the mutation wrote the key
\* data, and the action failed naming it
C19_Witness ==
  /\ last.op = "action"
  /\ last.key = "now"
  /\ MutationRan
  /\ HasOwn(target.data, "data")
  /\ last.res = Throw("DontTouchMyReservedwords", "data")

\* ------------------------------------------------------------------------
\* Properties of two stores and their seed (under SpecTwo)
\* ------------------------------------------------------------------------
\* a key of the data of store s that the data of store r does not hold
OnlyIn(s, r, k) == HasOwn(StoreOf(s).data, k) /\ ~HasOwn(StoreOf(r).data, k)

\* what a read of a key a store's data lacks gives: undefined, or the trap's
\* error for the key data
ReadOfAbsent(k) ==
  IF k = "data" THEN ProxyGet(NoTarget, "data") ELSE Return(Undefined)

\* C16: two stores are isolated: a commit or an action on one store never
\* changes the other's root record, and a key that only the data of store B
\* holds reads through the handle of store A as a key nobody wrote
\* (undefined), and the other way round.
C16_StoresIsolated ==
  [][/\ last'.op \in {"B.commit", "B.action"} => target' = target
     /\ last'.op \in {"A.commit", "A.action"} => other' = other
     /\ \A k \in Props :
          /\ OnlyIn("B", "A", k)' => ProxyGet(target', k) = ReadOfAbsent(k)
          /\ OnlyIn("A", "B", k)' => ProxyGet(other', k) = ReadOfAbsent(k)]_vars

\* store B has committed a key that store A does not hold
C16_Witness ==
  /\ last.op = "B.commit"
  /\ last.res.kind = "return"
  /\ OnlyIn("B", "A", "yz")
  /\ ProxyGet(other, "yz") = Return("yz")
  /\ ProxyGet(target, "yz") = Return(Undefined)

\* C18: the groups of a store are copies of the caller's: adding, removing or
\* replacing a key of the caller's seed.data, seed.mutations or seed.actions
\* after construction changes no store, and a commit or an action of a store
\* does not change the caller's seed.
C18_SeedNotAliased ==
  [][/\ last'.op = "edit" => (target' = target /\ other' = other)
     /\ last'.op \in {"A.commit", "A.action", "B.commit", "B.action"} =>
          seedObj' = seedObj]_vars

\* the caller has added a key to the data object of the seed, which the
\* stores built from it do not show
C18_Witness ==
  /\ last.op = "edit"
  /\ seedObj.data.kind = "object"
  /\ HasOwn(seedObj.data.obj, "yz")
  /\ ~HasOwn(target.data, "yz")
  /\ ProxyGet(target, "yz") = Return(Undefined)

\* ------------------------------------------------------------------------
\* Properties of commits, statement by statement (under SpecSteps)
\* ------------------------------------------------------------------------
\* the two keys the mutation setBoth writes hold the same value
BothAgree == GetOwn(target.data, "a") = GetOwn(target.data, "x")

\* C20: commits are atomic with respect to each other: no mutation that has
\* started and not finished is suspended, a mutation starts only on data no
\* other mutation is halfway through, and when commit returns the mutation
\* has made all its writes.
C20_CommitsAtomic ==
  /\ \A i \in 1..Len(tasks) : tasks[i].pc = 0
  /\ (running # Idle /\ running.pc = 1) => BothAgree
  /\ (last.op = "commit" /\ last.res.kind = "return") =>
       /\ BothAgree
       /\ GetOwn(target.data, "a") = last.value

\* the commit of a resumed action is halfway (a written, x not yet) while
\* another action is suspended and waits to commit another value
C20_Witness ==
  /\ running # Idle
  /\ running.pc = 2
  /\ ~BothAgree
  /\ last.op = "step"
  /\ \E i \in 1..Len(tasks) : tasks[i].pc = 0 /\ tasks[i].value # running.value

\* ------------------------------------------------------------------------
\* Properties of overlapping actions and of the root record (under Spec)
\* ------------------------------------------------------------------------
\* while an action is suspended the store is not locked: a direct commit
\* made now writes and returns, and another action dispatched now starts
NotLockedOut ==
  (Len(tasks) > 0 /\ HasOwn(target.mutations, "setX")) =>
    /\ commit(target, "setX", "yz").res.kind = "return"
    /\ GetOwn(commit(target, "setX", "yz").target.data, "x") = "yz"
    /\ action(target, "go", "yz").res = Return(PromiseRef)
    /\ action(target, "go", "yz").spawned

\* the step is a commit of setX, made directly or by a resumed action, that
\* returned
CommittedX ==
  /\ last'.op \in {"commit", "resume"}
  /\ last'.calls = <<Call("fn:setX", DataRef, last'.value)>>
  /\ last'.res.kind = "return"

\* a commit or an action made while an action is suspended does what it does
\* on a store with no action suspended, and every commit a resumed action
\* issues is applied when it executes
AppliedInOrder ==
  /\ (Len(tasks) > 0 /\ last'.op = "commit") =>
       /\ target' = commit(target, last'.key, last'.value).target
       /\ last'.res = commit(target, last'.key, last'.value).res
  /\ (Len(tasks) > 0 /\ last'.op = "action") =>
       /\ target' = action(target, last'.key, last'.value).target
       /\ last'.res = action(target, last'.key, last'.value).res
  /\ last'.op = "resume" =>
       /\ last'.calls = <<Call("fn:setX", DataRef, last'.value)>>
       /\ last'.res.kind = "return"
       /\ Len(tasks') = Len(tasks) - 1
  /\ CommittedX => GetOwn(target'.data, "x") = last'.value

\* C21 as claimed: overlapping actions on one store are not locked out: while
\* an action is suspended a direct commit or another action can run, every
\* commit is applied in the order the commits execute, and the value last
\* committed to a key is the one a read on the handle returns.
C21_OverlapLastCommitRead ==
  [][/\ NotLockedOut
     /\ AppliedInOrder
     /\ CommittedX => ProxyGet(target', "x") = Return(last'.value)]_vars

\* C21 (amended): overlapping actions on one store are not locked out: while
\* an action is suspended a direct commit or another action can run, every
\* commit is applied in the order the commits execute, and the value last
\* committed to a key is the one data holds and the one a read on the handle
\* returns when it is truthy (a falsy value reads as undefined).
C21_OverlapLastCommitWins ==
  [][/\ NotLockedOut
     /\ AppliedInOrder
     /\ CommittedX =>
          ProxyGet(target', "x") = IF Truthy(last'.value) THEN Return(last'.value)
                                   ELSE Return(Undefined)]_vars

\* two actions dispatched with different values are suspended, and a direct
\* commit has meanwhile written the key they will both write
C21_Witness ==
  /\ Len(tasks) = 2
  /\ tasks[1].value # tasks[2].value
  /\ last.op = "commit"
  /\ last.key = "setX"
  /\ last.value = "yz"
  /\ ProxyGet(target, "x") = Return("yz")

\* the root record as Store built it from the seed
AtConstruction == Store(seedObj).target

C23_NoRollback ==
  [][(last'.op = "commit" /\ HasOwn(target.mutations, last'.key)) =>
       LET fn == GetOwn(target.mutations, last'.key)
           ran == CallMutation(fn, target.data, last'.value)
       IN /\ last'.calls = <<Call(fn, DataRef, last'.value)>>
          /\ target'.data = ran.data
          /\ (last'.res.kind = "throw" /\ last'.res.out = "DontTouchMyReservedwords") =>
               /\ HasOwn(target'.data, last'.res.arg)
               /\ Includes(RESERVEDWORDS, last'.res.arg)
          /\ (FirstReserved(target.data) # "" /\ FirstReserved(ran.data) # "") =>
               /\ last'.res.kind = "throw"
               /\ last'.res.out = "DontTouchMyReservedwords"
          /\ (FirstReserved(target.data) # "" /\ FirstReserved(ran.data) = "") =>
               last'.res = ran.res]_vars

\* data holds the key data an earlier commit left, and a later commit of
\* another mutation has written its key and raised all the same
C23_Witness ==
  /\ last.op = "commit"
  /\ last.key = "set_a"
  /\ last.value = "yz"
  /\ last.res = Throw("DontTouchMyReservedwords", "data")
  /\ target.data = <<Prop("data", "yz"), Prop("a", "yz")>>

\* ------------------------------------------------------------------------
\* The order of the checks of construction (under SpecNew)
\* ------------------------------------------------------------------------
\* what a group is checked as: an empty mapping when the raw value is falsy,
\* the result of the producer when it is truthy and the producer itself when
\* it is not, the raw value otherwise
Candidate(raw) ==
  IF raw.kind = "producer"
  THEN IF RawTruthy(ProducerResult(raw)) THEN ProducerResult(raw) ELSE raw
  ELSE IF ~RawTruthy(raw) THEN ObjectValue(EmptyObject)
  ELSE raw

NoViolation == <<"", "", "">>

\* the first violation of group g, its checks taken in the order: not an
\* object, a reserved word among the keys, a value that is not callable
Violation(g) ==
  LET raw == seedObj[g]
  IN IF RawTypeOf(Candidate(raw)) # "object" THEN <<"ValidationError", g, "">>
     ELSE IF FirstReserved(Placed(raw)) # ""
       THEN <<"DontTouchMyReservedwords", FirstReserved(Placed(raw)), "">>
     ELSE IF g # "data" /\ FirstDisallowed(Placed(raw), <<"function">>) # ""
       THEN <<"DisallowedTypeError", g, FirstDisallowed(Placed(raw), <<"function">>)>>
     ELSE NoViolation

\* the first violation of the seed, its groups taken in the order data,
\* mutations, actions, and the emptiness of data and mutations taken last
FirstViolation ==
  IF Violation("data") # NoViolation THEN Violation("data")
  ELSE IF Violation("mutations") # NoViolation THEN Violation("mutations")
  ELSE IF Violation("actions") # NoViolation THEN Violation("actions")
  ELSE IF Placed(seedObj.data) = <<>> /\ Placed(seedObj.mutations) = <<>>
    THEN <<"NoPointError", "", "">>
  ELSE NoViolation

\* C24: construction reports the first violation in a fixed order: data
\* before mutations before actions, all three before the NoPointError check,
\* and within a group not-an-object before a reserved key before a value that
\* is not callable; a seed without violation constructs a store.
C24_FirstViolationReported ==
  (last.op = "new" /\ seedObj.kind = "object") =>
    IF FirstViolation = NoViolation
    THEN /\ last.res.kind = "return"
         /\ target.data = Placed(seedObj.data)
         /\ target.mutations = Placed(seedObj.mutations)
         /\ target.actions = Placed(seedObj.actions)
    ELSE /\ last.res.kind = "throw"
         /\ <<last.res.out, last.res.arg, last.res.arg2>> = FirstViolation
         /\ target = NoTarget

\* a mutations group holding a value that is not callable under its first key
\* and a reserved word as its second key was refused for the reserved word
C24_Witness ==
  /\ last.op = "new"
  /\ ReachesGroup("mutations")
  /\ Len(Placed(seedObj.mutations)) = 2
  /\ Placed(seedObj.mutations)[1].v \notin Functions
  /\ Placed(seedObj.mutations)[2].k = "data"
  /\ NewFailed("DontTouchMyReservedwords")
  /\ last.res.arg = "data"

====
